---- MODULE Spec2Model ----
(***************************************************************************)
(* A model of the registry validation scripts of rustopic/registries:      *)
(*   src/tools/validate.mjs   (script = "tools")                           *)
(*   src/unnamed/part_001     (script = "part001")                         *)
(* Both walk manifest.yml, index.yml and the game directories named by the *)
(* index, push messages onto the module-level arrays errors and warnings,  *)
(* and end in process.exit.  The document tree is the environment: what a  *)
(* file holds is drawn when the script reads it, the index (with the state *)
(* of each entry's directory) when index.yml is read.                      *)
(*                                                                         *)
(* A message is a record: kind says which push produced it, game is the    *)
(* position in index.games of the entry being walked (0 outside the loop;  *)
(* a tag of the model, the text does not hold it), id / name / val are the *)
(* values the template string interpolates ("" when it has none).          *)
(*                                                                         *)
(* Spec is a run over any tree; SpecTree is two runs, one after the other,  *)
(* over one fixed tree with a single game; SpecValidate is one call of      *)
(* validateSchema by itself.                                                *)
(***************************************************************************)
EXTENDS Integers, Sequences, FiniteSets, TLC

\* ---------------------------------------------------------------- bounds
MaxGames == 2          \* entries in index.games
MaxFiles == 1          \* files of a frameworks dir, plugin dirs, descriptors
MaxErrors == 2         \* cap on Len(errors)
MaxWarnings == 1       \* cap on Len(warnings)

Scripts == {"tools", "part001"}
SchemaNames == {"manifest", "index", "game", "adapter", "framework", "plugin"}
\* The schema sets the runs are checked with: schemas/ holds every schema,
\* or lacks one of them.
SchemaSets == {SchemaNames, SchemaNames \ {"game"}}

Undefined == "undefined"
SpecVersions == {"1.0", "1.1"}

\* ------------------------------------------------------------- documents
\* What yaml.load gives for a file.  t = "throws": readFileSync or yaml.load
\* throws (no such file, a directory, bad YAML); t = "empty": undefined,
\* null or another falsy value; t = "doc": a mapping (a truthy scalar is a
\* doc whose fields are all undefined).
GameId(i) == "game" \o ToString(i)
GameName(i) == "Game " \o ToString(i)
OtherId == "other"
OtherName == "Other"

\* ajv errors: kind is the keyword, path the instancePath split at "/".
\* prop is params.additionalProperty of an additionalProperties error ("" for
\* the other keywords).
Violation(kind, path) == [kind |-> kind, path |-> path, prop |-> ""]
VRequired == Violation("required", <<>>)
VAdditionalRoot ==
  [Violation("additionalProperties", <<>>) EXCEPT !.prop = "registryExtensions"]
VAdditionalRootOther == [Violation("additionalProperties", <<>>) EXCEPT !.prop = "notes"]
VRequiredExtensions == Violation("required", <<"registryExtensions">>)
VTypeMyDefaults == Violation("type", <<"mydefaults">>)
VPatternSpecVersion == Violation("pattern", <<"specVersion">>)
VTypeDefaults == Violation("type", <<"games", "0", "defaults">>)
VAdditionalNested ==
  [Violation("additionalProperties", <<"paths">>) EXCEPT !.prop = "registryExtensions"]
\* The ajv errors validateSchema is called with when it is checked by itself.
Violations ==
  {VRequired, VAdditionalRoot, VAdditionalRootOther, VPatternSpecVersion, VTypeDefaults,
   VAdditionalNested, VRequiredExtensions, VTypeMyDefaults}
\* The ajv verdicts a walked document is drawn with.
DocViolations == {<<>>, <<VRequired>>}

Msg(kind, game, id, name, val) ==
  [kind |-> kind, game |-> game, id |-> id, name |-> name, val |-> val]

Truthy(data) == data.t = "doc"

VARIABLES
  script,      \* which of the two scripts runs
  schemas,     \* names ajv.getSchema finds
  pc,          \* the statement the script is at
  manifest,    \* const manifest
  index,       \* const index
  g,           \* position of `game` in index.games
  errors,      \* let errors
  warnings,    \* let warnings
  exitStatus,  \* -1 while running; the process's exit code afterwards
  gameData,    \* const gameData, while the block that declares it runs
  adapterYml,  \* part_001: what adapter.yml of the entry being walked holds
  count,       \* length of the list the inner loop walks
  pos,         \* position of the inner loop in it
  configFile,  \* part_001: the descriptor the config loop handled last
  tree,        \* the document tree, when a run is made over a fixed one
  firstRun,    \* what the first of two runs over the tree ended with
  schemaArg,   \* validateSchema called by itself: its schemaName argument
  violations,  \* ... validate.errors for its data argument
  returned     \* ... its return value

vars == <<script, schemas, pc, manifest, index, g, errors, warnings, exitStatus,
          gameData, adapterYml, count, pos, configFile, tree, firstRun, schemaArg,
          violations, returned>>

\* The variables a step of a run never writes.
FrameVars == <<tree, firstRun, schemaArg, violations, returned>>

ended == pc \in {"done", "crashed"}

\* ---------------------------------------------------------------- helpers
RECURSIVE JoinPath(_)
JoinPath(path) ==
  IF path = <<>> THEN "" ELSE "/" \o Head(path) \o JoinPath(Tail(path))

\* The words of the filter that occur inside a path segment.
Substrings(segment) ==
  IF segment = "mydefaults" THEN {"mydefaults", "defaults"} ELSE {segment}

\* String.prototype.includes on an instancePath, taken segment by segment
\* (the words looked for hold no "/").
Includes(path, word) == \E n \in DOMAIN path : word \in Substrings(path[n])

RECURSIVE SelectViolations(_, _)
SelectViolations(viol, keep) ==
  IF viol = <<>> THEN <<>>
  ELSE IF Head(viol) \in keep
       THEN <<Head(viol)>> \o SelectViolations(Tail(viol), keep)
       ELSE SelectViolations(Tail(viol), keep)

RECURSIVE ViolationMsgs(_, _)
ViolationMsgs(viol, game) ==
  IF viol = <<>> THEN <<>>
  ELSE <<Msg("schemaViolation", game, "",
             IF Head(viol).path = <<>> THEN "root" ELSE JoinPath(Head(viol).path),
             Head(viol).kind)>> \o ViolationMsgs(Tail(viol), game)

CountMsgs(seq, kind, game) ==
  Cardinality({n \in DOMAIN seq : seq[n].kind = kind /\ seq[n].game = game})

ErrorsOfGame(game) == Cardinality({n \in DOMAIN errors : errors[n].game = game})

\* readYAML as it would be with errors.unshift in place of errors.push.
readYAMLUnshift(errs, file, game, name) ==
  IF file.t = "throws"
  THEN [errors |-> <<Msg("parseFailed", game, "", name, "")>> \o errs,
        data |-> [file EXCEPT !.t = "null"]]
  ELSE [errors |-> errs, data |-> file]

\* part_001 readYAML: a throw inside is caught, pushed as an error, and null
\* is returned; otherwise what yaml.load returned.
readYAML(errs, file, game, name) ==
  IF file.t = "throws"
  THEN [errors |-> Append(errs, Msg("parseFailed", game, "", name, "")),
        data |-> [file EXCEPT !.t = "null"]]
  ELSE [errors |-> errs, data |-> file]

\* tools/validate.mjs validateSchema: a missing schema is an error and false;
\* every ajv error is reported after a header line.
validateSchemaStrict(errs, warns, viol, schemaName, fileName, game) ==
  IF schemaName \notin schemas
  THEN [errors |-> Append(errs, Msg("schemaNotFound", game, "", schemaName, "")),
        warnings |-> warns, ok |-> FALSE]
  ELSE IF viol # <<>>
  THEN [errors |-> Append(errs, Msg("schemaHeader", game, "", fileName, ""))
                     \o ViolationMsgs(viol, game),
        warnings |-> warns, ok |-> FALSE]
  ELSE [errors |-> errs, warnings |-> warns, ok |-> TRUE]

\* part_001 validateSchema, the filter callback: TRUE keeps the ajv error.
relevantError(err) ==
  IF Includes(err.path, "specVersion") \/ Includes(err.path, "registryExtensions")
       \/ Includes(err.path, "defaults")
  THEN FALSE
  ELSE IF err.kind = "pattern" /\ Includes(err.path, "specVersion")
  THEN FALSE
  ELSE IF err.kind = "additionalProperties" /\ err.path = <<>>
  THEN FALSE
  ELSE TRUE

relevantErrors(viol) ==
  SelectViolations(viol, {viol[n] : n \in {m \in DOMAIN viol : relevantError(viol[m])}})

\* part_001 validateSchema: a missing schema is a warning and true; the ajv
\* errors the filter keeps are reported after a header line.
validateSchemaTolerant(errs, warns, viol, schemaName, fileName, game) ==
  IF schemaName \notin schemas
  THEN [errors |-> errs,
        warnings |-> Append(warns, Msg("schemaNotFound", game, "", schemaName, fileName)),
        ok |-> TRUE]
  ELSE IF viol # <<>> /\ relevantErrors(viol) # <<>>
  THEN [errors |-> Append(errs, Msg("schemaHeader", game, "", fileName, ""))
                     \o ViolationMsgs(relevantErrors(viol), game),
        warnings |-> warns, ok |-> FALSE]
  ELSE [errors |-> errs, warnings |-> warns, ok |-> TRUE]

\* validateSchema as it would be if the "Validation failed for" line were
\* printed rather than pushed.
validateSchemaNoHeader(errs, warns, viol, schemaName, fileName, game) ==
  LET kept == IF script = "tools" THEN viol ELSE relevantErrors(viol) IN
  IF schemaName \notin schemas
  THEN IF script = "tools"
       THEN validateSchemaStrict(errs, warns, viol, schemaName, fileName, game)
       ELSE validateSchemaTolerant(errs, warns, viol, schemaName, fileName, game)
  ELSE IF kept # <<>>
  THEN [errors |-> errs \o ViolationMsgs(kept, game), warnings |-> warns, ok |-> FALSE]
  ELSE [errors |-> errs, warnings |-> warns, ok |-> TRUE]

validateSchema(errs, warns, viol, schemaName, fileName, game) ==
  IF script = "tools"
  THEN validateSchemaStrict(errs, warns, viol, schemaName, fileName, game)
  ELSE validateSchemaTolerant(errs, warns, viol, schemaName, fileName, game)

\* `if (data) validateSchema(data, ...)`: the guarded call both scripts make
\* right after readYAML.
loadAndValidate(errs, warns, file, viol, schemaName, fileName, game) ==
  LET r == readYAML(errs, file, game, fileName) IN
  IF Truthy(r.data)
  THEN LET v == validateSchema(r.errors, warns, viol, schemaName, fileName, game)
       IN [errors |-> v.errors, warnings |-> v.warnings, data |-> r.data]
  ELSE [errors |-> r.errors, warnings |-> warns, data |-> r.data]

\* The cap on the messages of a run over any tree; a run over a fixed tree is
\* bounded by the tree.
Fits(errs, warns) ==
  IF tree.t = "any" THEN Len(errs) <= MaxErrors /\ Len(warns) <= MaxWarnings ELSE TRUE

\* What the script finds when it reads `field` of the tree: any value of
\* `values`, or, over a fixed tree, what the tree holds there.
Held(field, values) == IF tree.t = "any" THEN values ELSE {tree[field]}

\* existsSync(dir) and readdirSync(dir): dir is absent, or is no directory
\* (readdirSync throws ENOTDIR), or lists c entries the filter keeps.
DirListings == [exists : BOOLEAN, isDir : BOOLEAN, c : 0..MaxFiles]

\* An uncaught exception: node prints it and exits with code 1; the report
\* is never printed.
Crash ==
  /\ pc' = "crashed"
  /\ exitStatus' = 1

\* ------------------------------------------------------------ the inputs
Unset(doc) == [doc EXCEPT !.t = "unset"]

RootDoc == [t |-> "doc", specVersion |-> Undefined]
ManifestFiles ==
  {[RootDoc EXCEPT !.t = t] : t \in {"throws", "empty"}}
    \cup {[RootDoc EXCEPT !.specVersion = v] : v \in SpecVersions}

\* An item of index.games.  path = "none": the item has no path (a mapping
\* without one, a scalar, or null: line 135 throws a TypeError for each),
\* "missing": path names no directory, "dir": it names an existing one.
GameItems == {[path |-> p] : p \in {"none", "missing", "dir"}}

RECURSIVE SeqsUpTo(_, _)
SeqsUpTo(S, len) ==
  IF len = 0 THEN {<<>>}
  ELSE LET shorter == SeqsUpTo(S, len - 1) IN
       shorter \cup {Append(q, x) : q \in {r \in shorter : Len(r) = len - 1}, x \in S}

\* games = "undefined": index.games is falsy, the loop walks [];
\* "notIterable": a truthy value for...of cannot walk.
IndexDoc == [t |-> "doc", specVersion |-> Undefined, games |-> "list", list |-> <<>>]
IndexFiles ==
  {[IndexDoc EXCEPT !.t = t] : t \in {"throws", "empty"}}
    \cup {[IndexDoc EXCEPT !.specVersion = v, !.games = gk] :
            v \in {"1.0", Undefined}, gk \in {"undefined", "notIterable"}}
    \cup {[IndexDoc EXCEPT !.specVersion = v, !.list = l] :
            v \in {"1.0", Undefined}, l \in SeqsUpTo(GameItems, MaxGames)}

\* A reference to a file: undefined (falsy), a truthy value that is no
\* string (path.join throws), a string naming no file, a string naming one.
Refs == {Undefined, "nonString", "dangling", "file"}

\* The (frameworksSpecRef, configSpecRef) pairs a registryExtensions block is
\* drawn with: one of the two set, or both pointing at files, or a dangling
\* configSpecRef behind a frameworksSpecRef the script follows or chokes on.
RefPairs ==
  {<<r, Undefined>> : r \in Refs} \cup {<<Undefined, r>> : r \in Refs}
    \cup {<<"file", "file">>, <<"file", "dangling">>, <<"nonString", "dangling">>}

GameDoc == [t |-> "doc", id |-> Undefined, name |-> Undefined,
            regExt |-> FALSE, fwRef |-> Undefined, cfgRef |-> Undefined]
\* tools/validate.mjs reads id only; part_001 reads name and
\* registryExtensions, and id is drawn for it as well.
GameFiles(i) ==
  {[GameDoc EXCEPT !.t = t] : t \in {"absent", "throws", "empty"}}
    \cup IF script = "tools"
         THEN {[GameDoc EXCEPT !.id = d, !.name = GameName(i)] :
                 d \in {GameId(i), OtherId}}
         ELSE {[GameDoc EXCEPT !.id = d, !.name = nm] :
                 d \in {GameId(i), OtherId}, nm \in {Undefined, GameName(i), OtherName}}
              \cup {[GameDoc EXCEPT !.id = GameId(i), !.name = GameName(i),
                                    !.regExt = TRUE, !.fwRef = rf[1], !.cfgRef = rf[2]] :
                      rf \in RefPairs}

ChildDoc == [t |-> "doc", gameId |-> Undefined]
\* adapter.yml, a frameworks/*.yml file, a plugin.yml.
ChildFiles(i, ts) ==
  {[ChildDoc EXCEPT !.t = t] : t \in ts}
    \cup {[ChildDoc EXCEPT !.gameId = d] : d \in {GameId(i), OtherId}}

NoConfigFile ==
  [item |-> "unset", kind |-> Undefined, schemaRef |-> Undefined, t |-> "unset",
   fields |-> FALSE, lineSchema |-> FALSE]

\* tree when the run is over any tree: what a file holds is drawn as it is read.
AnyTree == [t |-> "any"]
NoRun == [t |-> "none", errors |-> <<>>, warnings |-> <<>>, exitStatus |-> -1]

\* Nothing loaded yet, the process running.
Unloaded ==
  /\ manifest = Unset(RootDoc)
  /\ index = Unset(IndexDoc)
  /\ g = 0
  /\ exitStatus = -1
  /\ gameData = Unset(GameDoc)
  /\ adapterYml = Unset(ChildDoc)
  /\ count = 0
  /\ pos = 0
  /\ configFile = NoConfigFile

\* validateSchema is not being called by itself.
NoCall ==
  /\ schemaArg = ""
  /\ violations = <<>>
  /\ returned = "none"

Init ==
  /\ script \in Scripts
  /\ schemas \in SchemaSets
  /\ pc = "manifest"
  /\ errors = <<>>
  /\ warnings = <<>>
  /\ Unloaded
  /\ tree = AnyTree
  /\ firstRun = NoRun
  /\ NoCall

\* ------------------------------------------------------ manifest and index
\* Validate manifest.
ValidateManifest ==
  /\ pc = "manifest"
  /\ \E file \in Held("manifest", ManifestFiles),
        viol \in Held("manifestViol", DocViolations) :
       LET r == loadAndValidate(errors, warnings, file, viol, "manifest", "manifest.yml", 0) IN
       /\ Fits(r.errors, r.warnings)
       /\ errors' = r.errors
       /\ warnings' = r.warnings
       /\ manifest' = r.data
  /\ pc' = "index"
  /\ UNCHANGED <<script, schemas, index, g, exitStatus, gameData, adapterYml, count, pos,
                 configFile, FrameVars>>

\* The check as it would be if an index without specVersion were let through.
checkSpecVersionLenient(errs, m, idx) ==
  IF Truthy(m) /\ idx.specVersion # m.specVersion /\ idx.specVersion # Undefined
  THEN Append(errs, Msg("specVersionMismatch", 0, "", idx.specVersion, m.specVersion))
  ELSE errs

\* `if (manifest && index.specVersion !== manifest.specVersion) errors.push`
checkSpecVersion(errs, m, idx) ==
  IF Truthy(m) /\ idx.specVersion # m.specVersion
  THEN Append(errs, Msg("specVersionMismatch", 0, "", idx.specVersion, m.specVersion))
  ELSE errs

\* Validate index, up to the head of the loop over index.games.
ValidateIndex ==
  /\ pc = "index"
  /\ \E file \in Held("index", IndexFiles), viol \in Held("indexViol", DocViolations) :
       LET r == loadAndValidate(errors, warnings, file, viol, "index", "index.yml", 0)
           errs == IF Truthy(r.data) THEN checkSpecVersion(r.errors, manifest, r.data)
                   ELSE r.errors
       IN
       /\ Fits(errs, r.warnings)
       /\ errors' = errs
       /\ warnings' = r.warnings
       /\ index' = r.data
       /\ IF Truthy(r.data) /\ r.data.games = "notIterable"
          THEN Crash /\ g' = g
          ELSE IF Truthy(r.data) /\ r.data.games = "list" /\ r.data.list # <<>>
          THEN pc' = "gameDir" /\ g' = 1 /\ exitStatus' = exitStatus
          ELSE pc' = "report" /\ g' = g /\ exitStatus' = exitStatus
  /\ UNCHANGED <<script, schemas, manifest, gameData, adapterYml, count, pos, configFile,
                 FrameVars>>

\* ------------------------------------------------------- the loop over games
game == index.list[g]
GamePath(i) == "games/" \o GameId(i)
FrameworkFile(i) == "framework" \o ToString(i) \o ".yml"
PluginId(i) == "plugin" \o ToString(i)

EntryVarsUnchanged == UNCHANGED <<script, schemas, manifest, index, g, FrameVars>>

\* The head of the loop body: gameDir = path.join(rootDir, game.path) and the
\* existsSync(gameDir) check.  part_001 never opens adapter.yml: what the
\* directory holds there is drawn as the walk enters it.
CheckGameDir ==
  /\ pc = "gameDir"
  /\ IF game.path = "none"
     THEN /\ Crash
          /\ UNCHANGED <<errors, adapterYml>>
     ELSE IF game.path = "missing"
     THEN /\ errors' = Append(errors, Msg("dirMissing", g, GameId(g), "", GamePath(g)))
          /\ Fits(errors', warnings)
          /\ pc' = "endGame"
          /\ UNCHANGED <<exitStatus, adapterYml>>
     ELSE /\ pc' = "gameYml"
          /\ IF script = "part001"
             THEN adapterYml' \in Held("adapter", ChildFiles(g, {}))
             ELSE adapterYml' = adapterYml
          /\ UNCHANGED <<errors, exitStatus>>
  /\ EntryVarsUnchanged
  /\ UNCHANGED <<warnings, gameData, count, pos, configFile>>

\* tools/validate.mjs: `if (gameData.id !== game.id) errors.push`
checkGameId(errs, data, i) ==
  IF data.id # GameId(i)
  THEN Append(errs, Msg("gameIdMismatch", i, GameId(i), "game.yml", data.id))
  ELSE errs

\* part_001: `if (gameData.name && gameData.name !== game.name) warnings.push`
checkGameName(warns, data, i) ==
  IF data.name # Undefined /\ data.name # GameName(i)
  THEN Append(warns, Msg("gameNameMismatch", i, GameId(i), GameName(i), data.name))
  ELSE warns

\* Check game.yml exists, load it, validate it, compare it with the index.
\* tools/validate.mjs goes on to adapter.yml, part_001 to the test of
\* gameData.registryExtensions.
CheckGameYml ==
  /\ pc = "gameYml"
  /\ \E file \in Held("gameYml", GameFiles(g)), viol \in Held("gameViol", DocViolations) :
       IF file.t = "absent"
       THEN /\ errors' = Append(errors, Msg("gameYmlMissing", g, GameId(g), "game.yml", ""))
            /\ warnings' = warnings
            /\ gameData' = file
            /\ pc' = IF script = "tools" THEN "adapter" ELSE "registryExtensions"
       ELSE LET r == loadAndValidate(errors, warnings, file, viol, "game", "game.yml", g) IN
            /\ errors' = IF script = "tools" /\ Truthy(r.data)
                         THEN checkGameId(r.errors, r.data, g) ELSE r.errors
            /\ warnings' = IF script = "part001" /\ Truthy(r.data)
                           THEN checkGameName(r.warnings, r.data, g) ELSE r.warnings
            /\ gameData' = r.data
            /\ pc' = IF script = "tools" THEN "adapter" ELSE "registryExtensions"
  /\ Fits(errors', warnings')
  /\ EntryVarsUnchanged
  /\ UNCHANGED <<exitStatus, adapterYml, count, pos, configFile>>

\* The bottom of the loop body: the next game, or the report after the last.
NextGame ==
  /\ pc = "endGame"
  /\ IF g < Len(index.list)
     THEN g' = g + 1 /\ pc' = "gameDir"
     ELSE g' = g /\ pc' = "report"
  /\ gameData' = Unset(GameDoc)
  /\ adapterYml' = Unset(ChildDoc)
  /\ count' = 0
  /\ pos' = 0
  /\ configFile' = NoConfigFile
  /\ UNCHANGED <<script, schemas, manifest, index, errors, warnings, exitStatus, FrameVars>>

\* ------------------------------------- tools/validate.mjs: the child documents
\* `if (<child>Data.gameId !== game.id) errors.push`, for adapter.yml, a
\* frameworks file and a plugin.yml.
checkBackRef(errs, kind, data, i, name) ==
  IF data.gameId # GameId(i)
  THEN Append(errs, Msg(kind, i, GameId(i), name, data.gameId))
  ELSE errs

\* Check adapter.yml exists, load it, validate it, check gameId.  The block
\* that declared gameData has ended.
CheckAdapter ==
  /\ pc = "adapter"
  /\ \E file \in Held("adapter", ChildFiles(g, {"absent", "throws", "empty"})),
        viol \in Held("adapterViol", DocViolations) :
       IF file.t = "absent"
       THEN /\ errors' = Append(errors, Msg("adapterYmlMissing", g, GameId(g), "adapter.yml", ""))
            /\ warnings' = warnings
       ELSE LET r == loadAndValidate(errors, warnings, file, viol, "adapter",
                                     "adapter.yml", g) IN
            /\ errors' = IF Truthy(r.data)
                         THEN checkBackRef(r.errors, "adapterGameIdMismatch", r.data, g,
                                           "adapter.yml")
                         ELSE r.errors
            /\ warnings' = r.warnings
  /\ Fits(errors', warnings')
  /\ pc' = "frameworks"
  /\ gameData' = Unset(GameDoc)
  /\ EntryVarsUnchanged
  /\ UNCHANGED <<exitStatus, adapterYml, count, pos, configFile>>

\* Check frameworks: list the .yml files of the frameworks directory.
CheckFrameworks ==
  /\ pc = "frameworks"
  /\ \E dir \in Held("frameworks", DirListings) :
       IF dir.exists /\ ~dir.isDir
       THEN Crash /\ UNCHANGED <<count, pos>>
       ELSE IF ~dir.exists \/ dir.c = 0
       THEN pc' = "plugins" /\ UNCHANGED <<exitStatus, count, pos>>
       ELSE pc' = "frameworkFile" /\ count' = dir.c /\ pos' = 1 /\ exitStatus' = exitStatus
  /\ EntryVarsUnchanged
  /\ UNCHANGED <<errors, warnings, gameData, adapterYml, configFile>>

\* One pass of the loop over frameworkFiles.
CheckFrameworkFile ==
  /\ pc = "frameworkFile"
  /\ \E file \in Held("frameworkFile", ChildFiles(g, {"throws", "empty"})),
        viol \in Held("frameworkViol", DocViolations) :
       LET r == loadAndValidate(errors, warnings, file, viol, "framework",
                                FrameworkFile(pos), g) IN
       /\ errors' = IF Truthy(r.data)
                    THEN checkBackRef(r.errors, "frameworkGameIdMismatch", r.data, g,
                                      FrameworkFile(pos))
                    ELSE r.errors
       /\ warnings' = r.warnings
  /\ Fits(errors', warnings')
  /\ IF pos < count THEN pos' = pos + 1 /\ pc' = pc /\ count' = count
     ELSE pos' = 0 /\ count' = 0 /\ pc' = "plugins"
  /\ EntryVarsUnchanged
  /\ UNCHANGED <<exitStatus, gameData, adapterYml, configFile>>

\* Check plugins: list the subdirectories of the plugins directory.
CheckPlugins ==
  /\ pc = "plugins"
  /\ \E dir \in Held("plugins", DirListings) :
       IF dir.exists /\ ~dir.isDir
       THEN Crash /\ UNCHANGED <<count, pos>>
       ELSE IF ~dir.exists \/ dir.c = 0
       THEN pc' = "endGame" /\ UNCHANGED <<exitStatus, count, pos>>
       ELSE pc' = "pluginDir" /\ count' = dir.c /\ pos' = 1 /\ exitStatus' = exitStatus
  /\ EntryVarsUnchanged
  /\ UNCHANGED <<errors, warnings, gameData, adapterYml, configFile>>

\* `if (!fs.existsSync(schemaYml)) warnings.push`, after the plugin.yml checks.
checkSchemaYml(warns, schemaYml, i, pluginId) ==
  IF ~schemaYml
  THEN Append(warns, Msg("schemaYmlMissing", i, "", pluginId, ""))
  ELSE warns

\* One pass of the loop over pluginDirs.
CheckPlugin ==
  /\ pc = "pluginDir"
  /\ \E file \in Held("pluginYml", ChildFiles(g, {"absent", "throws", "empty"})),
        viol \in Held("pluginViol", DocViolations),
        schemaYml \in Held("schemaYml", BOOLEAN) :
       IF file.t = "absent"
       THEN /\ errors' = Append(errors, Msg("pluginYmlMissing", g, "", PluginId(pos), ""))
            /\ warnings' = checkSchemaYml(warnings, schemaYml, g, PluginId(pos))
       ELSE LET r == loadAndValidate(errors, warnings, file, viol, "plugin",
                                     "plugin.yml", g) IN
            /\ errors' = IF Truthy(r.data)
                         THEN checkBackRef(r.errors, "pluginGameIdMismatch", r.data, g,
                                           PluginId(pos))
                         ELSE r.errors
            /\ warnings' = checkSchemaYml(r.warnings, schemaYml, g, PluginId(pos))
  /\ Fits(errors', warnings')
  /\ IF pos < count THEN pos' = pos + 1 /\ pc' = pc /\ count' = count
     ELSE pos' = 0 /\ count' = 0 /\ pc' = "endGame"
  /\ EntryVarsUnchanged
  /\ UNCHANGED <<exitStatus, gameData, adapterYml, configFile>>

\* ------------------------------------------- part_001: registry extensions
\* An item of frameworksData.frameworks: null, a value without id or name
\* (a scalar, or a mapping that lacks one), or a mapping with both.
FrameworkItems == {"null", "incomplete", "ok"}
FrameworksSpecDoc == [t |-> "doc", version |-> FALSE, frameworks |-> "list", list |-> <<>>]
\* frameworks = "undefined": falsy; "notArray": truthy, Array.isArray false.
FrameworksSpecFiles ==
  {[FrameworksSpecDoc EXCEPT !.t = t] : t \in {"throws", "empty"}}
    \cup {[FrameworksSpecDoc EXCEPT !.version = v, !.frameworks = f] :
            v \in BOOLEAN, f \in {"undefined", "notArray"}}
    \cup {[FrameworksSpecDoc EXCEPT !.version = v, !.list = l] :
            v \in BOOLEAN, l \in SeqsUpTo(FrameworkItems, MaxFiles)}

\* `for (const framework of frameworksData.frameworks)`: reading framework.id
\* of a null item throws; the errors pushed before stay pushed.
RECURSIVE checkFrameworkItems(_, _, _)
checkFrameworkItems(errs, list, i) ==
  IF list = <<>> THEN [errors |-> errs, thrown |-> FALSE]
  ELSE IF Head(list) = "null" THEN [errors |-> errs, thrown |-> TRUE]
  ELSE checkFrameworkItems(
         IF Head(list) = "incomplete"
         THEN Append(errs, Msg("frameworkItemIncomplete", i, GameId(i), "", ""))
         ELSE errs,
         Tail(list), i)

\* The checks on a loaded frameworks spec: version, frameworks array, items.
checkFrameworksData(errs, data, i) ==
  LET e1 == IF ~data.version
            THEN Append(errs, Msg("frameworksVersionMissing", i, GameId(i), "", ""))
            ELSE errs
  IN IF data.frameworks # "list"
     THEN [errors |-> Append(e1, Msg("frameworksArrayMissing", i, GameId(i), "", "")),
           thrown |-> FALSE]
     ELSE checkFrameworkItems(e1, data.list, i)

\* `if (!fs.existsSync(<path>)) errors.push(... not found at <ref>)`
refNotFound(errs, kind, i, ref) == Append(errs, Msg(kind, i, GameId(i), "", ref))

\* `if (gameData) { ... if (gameData.registryExtensions) {`: the extension
\* checks run for a loaded game.yml that has the block; otherwise the loop
\* body ends.
CheckRegistryExtensions ==
  /\ pc = "registryExtensions"
  /\ IF Truthy(gameData) /\ gameData.regExt
     THEN pc' = "frameworksSpec" /\ gameData' = gameData
     ELSE pc' = "endGame" /\ gameData' = Unset(GameDoc)
  /\ EntryVarsUnchanged
  /\ UNCHANGED <<errors, warnings, exitStatus, adapterYml, count, pos, configFile>>

\* Check frameworks spec (registryExtensions.frameworksSpecRef).
CheckFrameworksSpec ==
  /\ pc = "frameworksSpec"
  /\ IF gameData.fwRef = Undefined
     THEN /\ pc' = "configSpec"
          /\ UNCHANGED <<errors, exitStatus>>
     ELSE IF gameData.fwRef = "nonString"
     THEN /\ Crash
          /\ UNCHANGED errors
     ELSE IF gameData.fwRef = "dangling"
     THEN /\ errors' = refNotFound(errors, "frameworksSpecNotFound", g, "frameworksSpecRef")
          /\ pc' = "configSpec"
          /\ exitStatus' = exitStatus
     ELSE \E file \in Held("frameworksSpec", FrameworksSpecFiles) :
            LET r == readYAML(errors, file, g, "frameworksSpecRef")
                c == IF Truthy(r.data) THEN checkFrameworksData(r.errors, r.data, g)
                     ELSE [errors |-> r.errors, thrown |-> FALSE]
            IN /\ errors' = c.errors
               /\ IF c.thrown THEN Crash
                  ELSE pc' = "configSpec" /\ exitStatus' = exitStatus
  /\ Fits(errors', warnings)
  /\ EntryVarsUnchanged
  /\ UNCHANGED <<warnings, gameData, adapterYml, count, pos, configFile>>

ConfigIndexDoc == [t |-> "doc", version |-> FALSE, files |-> "list", count |-> 0]
\* files = "undefined": falsy; "notArray": truthy, Array.isArray false;
\* "list": an array of count descriptors.
ConfigIndexFiles ==
  {[ConfigIndexDoc EXCEPT !.t = t] : t \in {"throws", "empty"}}
    \cup {[ConfigIndexDoc EXCEPT !.version = v, !.files = f] :
            v \in BOOLEAN, f \in {"undefined", "notArray"}}
    \cup {[ConfigIndexDoc EXCEPT !.version = v, !.count = c] :
            v \in BOOLEAN, c \in 0..MaxFiles}

\* The checks on a loaded config index: version and files array.
checkConfigIndexData(errs, data, i) ==
  LET e1 == IF ~data.version
            THEN Append(errs, Msg("configVersionMissing", i, GameId(i), "", ""))
            ELSE errs
  IN IF data.files # "list"
     THEN Append(e1, Msg("configFilesMissing", i, GameId(i), "", ""))
     ELSE e1

\* Check config spec (registryExtensions.configSpecRef), up to the head of
\* the loop over configIndexData.files.
CheckConfigSpec ==
  /\ pc = "configSpec"
  /\ IF gameData.cfgRef = Undefined
     THEN /\ pc' = "endGame"
          /\ UNCHANGED <<errors, exitStatus, count, pos>>
     ELSE IF gameData.cfgRef = "nonString"
     THEN /\ Crash
          /\ UNCHANGED <<errors, count, pos>>
     ELSE IF gameData.cfgRef = "dangling"
     THEN /\ errors' = refNotFound(errors, "configSpecNotFound", g, "configSpecRef")
          /\ pc' = "endGame"
          /\ UNCHANGED <<exitStatus, count, pos>>
     ELSE \E file \in Held("configIndex", ConfigIndexFiles) :
            LET r == readYAML(errors, file, g, "configSpecRef") IN
            /\ errors' = IF Truthy(r.data) THEN checkConfigIndexData(r.errors, r.data, g)
                         ELSE r.errors
            /\ exitStatus' = exitStatus
            /\ IF Truthy(r.data) /\ r.data.files = "list" /\ r.data.count > 0
               THEN pc' = "configFile" /\ count' = r.data.count /\ pos' = 1
               ELSE pc' = "endGame" /\ UNCHANGED <<count, pos>>
  /\ gameData' = IF pc' = "endGame" THEN Unset(GameDoc) ELSE gameData
  /\ Fits(errors', warnings)
  /\ EntryVarsUnchanged
  /\ UNCHANGED <<warnings, adapterYml, configFile>>

\* An item of configIndexData.files with the file its schemaRef names:
\* item = "null": a null item; kind: its kind field; schemaRef: as Refs;
\* t, fields, lineSchema: what the schema file holds (the two fields truthy
\* or not).  Its version and file.format are drawn apart, as flags.
ConfigFileDoc ==
  [item |-> "rec", kind |-> "other", schemaRef |-> "file", t |-> "doc",
   fields |-> TRUE, lineSchema |-> TRUE]
ConfigKinds == {"kv", "list", "other"}
ConfigFiles ==
  {[NoConfigFile EXCEPT !.item = "null"]}
    \cup {[NoConfigFile EXCEPT !.item = "rec", !.kind = kd, !.schemaRef = r] :
            kd \in ConfigKinds, r \in Refs \ {"file"}}
    \cup {[NoConfigFile EXCEPT !.item = "rec", !.kind = kd, !.schemaRef = "file", !.t = t] :
            kd \in ConfigKinds, t \in {"throws", "empty"}}
    \cup {[ConfigFileDoc EXCEPT !.kind = kd, !.fields = fl, !.lineSchema = ls] :
            kd \in ConfigKinds, fl \in BOOLEAN, ls \in BOOLEAN}

\* `if (configFile.kind === 'list' && !schemaData.lineSchema) errors.push`
checkLineSchema(errs, d, i) ==
  IF d.kind = "list" /\ ~d.lineSchema
  THEN Append(errs, Msg("lineSchemaMissing", i, GameId(i), "", "schemaRef"))
  ELSE errs

\* `if (configFile.kind === 'kv' && !schemaData.fields) warnings.push`
checkFields(warns, d, i) ==
  IF d.kind = "kv" /\ ~d.fields
  THEN Append(warns, Msg("fieldsMissing", i, GameId(i), "", "schemaRef"))
  ELSE warns

\* The checks on a loaded config schema that push errors: version,
\* file.format, lineSchema.
checkSchemaData(errs, d, version, format, i) ==
  LET e1 == IF ~version
            THEN Append(errs, Msg("schemaVersionMissing", i, GameId(i), "", "schemaRef"))
            ELSE errs
      e2 == IF ~format
            THEN Append(e1, Msg("schemaFormatMissing", i, GameId(i), "", "schemaRef"))
            ELSE e1
  IN checkLineSchema(e2, d, i)

\* One pass of the loop over configIndexData.files.
CheckConfigFile ==
  /\ pc = "configFile"
  /\ \E d \in Held("configFile", ConfigFiles),
        version \in Held("schemaVersion", BOOLEAN),
        format \in Held("schemaFormat", BOOLEAN) :
       /\ configFile' = d
       /\ IF d.item = "null" \/ d.schemaRef = "nonString"
          THEN /\ Crash
               /\ UNCHANGED <<errors, warnings, count, pos>>
          ELSE /\ exitStatus' = exitStatus
               /\ IF pos < count THEN pos' = pos + 1 /\ pc' = pc /\ count' = count
                  ELSE pos' = 0 /\ count' = 0 /\ pc' = "endGame"
               /\ IF d.schemaRef = Undefined
                  THEN /\ warnings' = Append(warnings,
                                        Msg("schemaRefMissing", g, GameId(g), "", ""))
                       /\ UNCHANGED errors
                  ELSE IF d.schemaRef = "dangling"
                          THEN /\ errors' = refNotFound(errors, "configSchemaNotFound", g,
                                                        "schemaRef")
                               /\ warnings' = warnings
                          ELSE LET r == readYAML(errors, d, g, "schemaRef") IN
                               /\ errors' = IF Truthy(r.data)
                                            THEN checkSchemaData(r.errors, d, version, format, g)
                                            ELSE r.errors
                               /\ warnings' = IF Truthy(r.data)
                                              THEN checkFields(warnings, d, g)
                                              ELSE warnings
  /\ gameData' = IF pc' = "endGame" THEN Unset(GameDoc) ELSE gameData
  /\ Fits(errors', warnings')
  /\ EntryVarsUnchanged
  /\ UNCHANGED adapterYml

\* ------------------------------------------------------------- the report
\* Print results: process.exit(1) when errors is not empty, else exit(0).
PrintResults ==
  /\ pc = "report"
  /\ exitStatus' = IF Len(errors) > 0 THEN 1 ELSE 0
  /\ pc' = "done"
  /\ UNCHANGED <<script, schemas, manifest, index, g, errors, warnings, gameData,
                 adapterYml, count, pos, configFile, FrameVars>>

\* ------------------------------------------------------- the specification
Next ==
  \/ ValidateManifest
  \/ ValidateIndex
  \/ CheckGameDir
  \/ CheckGameYml
  \/ CheckAdapter
  \/ CheckFrameworks
  \/ CheckFrameworkFile
  \/ CheckPlugins
  \/ CheckPlugin
  \/ CheckRegistryExtensions
  \/ CheckFrameworksSpec
  \/ CheckConfigSpec
  \/ CheckConfigFile
  \/ NextGame
  \/ PrintResults

Spec == Init /\ [][Next]_vars

\* ------------------------------------------------- runs over a fixed tree
\* A fixed tree with one game: what each file the scripts may read holds.
\* The files beneath a directory or behind a reference count only when the
\* directory or the reference is there.
ValidGameYml == [GameDoc EXCEPT !.id = GameId(1), !.name = GameName(1)]
ValidChild == [ChildDoc EXCEPT !.gameId = GameId(1)]
NoDir == [exists |-> FALSE, isDir |-> TRUE, c |-> 0]
OneEntryDir == [exists |-> TRUE, isDir |-> TRUE, c |-> 1]

\* manifest.yml, index.yml with one game, the game's directory and its valid
\* game.yml: no adapter.yml, no frameworks, no plugins, no registryExtensions.
MinimalTree ==
  [t |-> "fixed",
   manifest |-> [RootDoc EXCEPT !.specVersion = "1.0"], manifestViol |-> <<>>,
   index |-> [IndexDoc EXCEPT !.specVersion = "1.0", !.list = <<[path |-> "dir"]>>],
   indexViol |-> <<>>,
   gameYml |-> ValidGameYml, gameViol |-> <<>>,
   adapter |-> [ChildDoc EXCEPT !.t = "absent"], adapterViol |-> <<>>,
   frameworks |-> NoDir, frameworkFile |-> ValidChild, frameworkViol |-> <<>>,
   plugins |-> NoDir, pluginYml |-> ValidChild, pluginViol |-> <<>>, schemaYml |-> TRUE,
   frameworksSpec |-> [FrameworksSpecDoc EXCEPT !.version = TRUE, !.list = <<"ok">>],
   configIndex |-> [ConfigIndexDoc EXCEPT !.version = TRUE, !.count = 1],
   configFile |-> [ConfigFileDoc EXCEPT !.kind = "kv"],
   schemaVersion |-> TRUE, schemaFormat |-> TRUE]

\* The minimal tree with a frameworks file, with a plugin, with a plugin
\* directory that holds neither plugin.yml nor schema.yml, and with a
\* registryExtensions block naming both spec files.
FrameworksTree == [MinimalTree EXCEPT !.frameworks = OneEntryDir]
PluginsTree == [MinimalTree EXCEPT !.plugins = OneEntryDir]
BarePluginTree ==
  [PluginsTree EXCEPT !.pluginYml = [ChildDoc EXCEPT !.t = "absent"], !.schemaYml = FALSE]
ExtensionsTree ==
  [MinimalTree EXCEPT !.gameYml = [ValidGameYml EXCEPT !.regExt = TRUE, !.fwRef = "file",
                                                       !.cfgRef = "file"]]
BaseTrees == {MinimalTree, FrameworksTree, PluginsTree, BarePluginTree, ExtensionsTree}

\* What a field of a tree may hold: what the script may find there.
FieldValues(field) ==
  CASE field = "manifest" -> ManifestFiles
    [] field = "index" -> {f \in IndexFiles : Len(f.list) <= 1}
    [] field = "gameYml" -> GameFiles(1)
    [] field \in {"adapter", "pluginYml"} -> ChildFiles(1, {"absent", "throws", "empty"})
    [] field = "frameworkFile" -> ChildFiles(1, {"throws", "empty"})
    [] field \in {"frameworks", "plugins"} -> DirListings
    [] field \in {"schemaYml", "schemaVersion", "schemaFormat"} -> BOOLEAN
    [] field = "frameworksSpec" -> FrameworksSpecFiles
    [] field = "configIndex" -> ConfigIndexFiles
    [] field = "configFile" -> ConfigFiles
    [] OTHER -> DocViolations

\* The trees the runs are made over: a base tree, or one that differs from
\* it in one field.
Trees ==
  BaseTrees \cup
    {[base EXCEPT ![field] = v] : <<base, field, v>> \in
       UNION {{<<b, f, w>> : w \in FieldValues(f)} :
                <<b, f>> \in BaseTrees \X (DOMAIN MinimalTree \ {"t"})}}

InitTree ==
  /\ script \in Scripts
  /\ schemas \in SchemaSets
  /\ pc = "manifest"
  /\ errors = <<>>
  /\ warnings = <<>>
  /\ Unloaded
  /\ tree \in Trees
  /\ firstRun = NoRun
  /\ NoCall

\* A restart as it would be if errors and warnings outlived the process.
RerunKeepingMessages ==
  /\ ended
  /\ firstRun.t = "none"
  /\ firstRun' = [t |-> "run", errors |-> errors, warnings |-> warnings,
                  exitStatus |-> exitStatus]
  /\ pc' = "manifest"
  /\ errors' = errors
  /\ warnings' = warnings
  /\ manifest' = Unset(RootDoc)
  /\ index' = Unset(IndexDoc)
  /\ g' = 0
  /\ exitStatus' = -1
  /\ gameData' = Unset(GameDoc)
  /\ adapterYml' = Unset(ChildDoc)
  /\ count' = 0
  /\ pos' = 0
  /\ configFile' = NoConfigFile
  /\ UNCHANGED <<script, schemas, tree, schemaArg, violations, returned>>

\* The script is started again over the same tree, once the first run is
\* over: a new process, errors = [] and warnings = [].
Rerun ==
  /\ ended
  /\ firstRun.t = "none"
  /\ firstRun' = [t |-> "run", errors |-> errors, warnings |-> warnings,
                  exitStatus |-> exitStatus]
  /\ pc' = "manifest"
  /\ errors' = <<>>
  /\ warnings' = <<>>
  /\ manifest' = Unset(RootDoc)
  /\ index' = Unset(IndexDoc)
  /\ g' = 0
  /\ exitStatus' = -1
  /\ gameData' = Unset(GameDoc)
  /\ adapterYml' = Unset(ChildDoc)
  /\ count' = 0
  /\ pos' = 0
  /\ configFile' = NoConfigFile
  /\ UNCHANGED <<script, schemas, tree, schemaArg, violations, returned>>

NextTree ==
  \/ Next
  \/ Rerun

SpecTree == InitTree /\ [][NextTree]_vars

\* ------------------------------------------- validateSchema, called by itself
MaxViolations == 2     \* length of validate.errors

\* errors as a call finds it: empty, or holding a parse failure pushed before.
PriorErrors == {<<>>, <<Msg("parseFailed", 0, "", "manifest.yml", "")>>}

\* What validateSchema pushed: everything but the parse failure held before.
Pushed(seq) == SelectSeq(seq, LAMBDA m : m.kind # "parseFailed")

InitValidate ==
  /\ script \in Scripts
  /\ schemas \in SchemaSets
  /\ pc = "validateSchema"
  /\ errors \in PriorErrors
  /\ warnings = <<>>
  /\ Unloaded
  /\ tree = AnyTree
  /\ firstRun = NoRun
  /\ schemaArg \in SchemaNames
  /\ violations \in SeqsUpTo(Violations, MaxViolations)
  /\ returned = "none"

\* validateSchema(data, schemaName, filePath), from the call to the return.
ValidateSchemaCall ==
  /\ pc = "validateSchema"
  /\ LET r == validateSchema(errors, warnings, violations, schemaArg, "data.yml", 0) IN
       /\ errors' = r.errors
       /\ warnings' = r.warnings
       /\ returned' = IF r.ok THEN "true" ELSE "false"
  /\ pc' = "returned"
  /\ UNCHANGED <<script, schemas, manifest, index, g, exitStatus, gameData, adapterYml,
                 count, pos, configFile, tree, firstRun, schemaArg, violations>>

SpecValidate == InitValidate /\ [][ValidateSchemaCall]_vars

\* ------------------------------------------------------------- properties
IndexList == IF Truthy(index) /\ index.games = "list" THEN index.list ELSE <<>>

\* C1: at the end of every run the exit status is non-zero exactly when
\* errors is not empty, whatever warnings holds.
C1_ExitStatusIffErrors ==
  ended => ((exitStatus # 0) <=> (Len(errors) > 0))

\* C2: no run aborts by an uncaught failure; every run gets to the report and
\* has its exit status decided there.
C2_NoUncaughtFailure ==
  pc # "crashed"

\* C3: failures recorded elsewhere never suppress the checks of an entry
\* whose directory exists: when the run has ended, the loop has walked every
\* such entry of the index (an entry never walked has nothing recorded,
\* whatever it holds).
C3_EveryEntryWalked ==
  ended => \A i \in DOMAIN IndexList : IndexList[i].path = "dir" => i <= g

\* C4: when manifest and index are both loaded and declare different
\* specVersion values, then from the index step on errors holds exactly one
\* mismatch message, naming both values, warnings holds none, and a run that
\* has ended has a non-zero exit status.
C4_SpecVersionMismatch ==
  (pc \notin {"manifest", "index"} /\ Truthy(manifest) /\ Truthy(index)
     /\ index.specVersion # manifest.specVersion)
  => /\ CountMsgs(errors, "specVersionMismatch", 0) = 1
     /\ \E n \in DOMAIN errors :
          errors[n] = Msg("specVersionMismatch", 0, "", index.specVersion,
                          manifest.specVersion)
     /\ CountMsgs(warnings, "specVersionMismatch", 0) = 0
     /\ (ended => exitStatus # 0)

\* A finished run whose manifest and index declare different specVersions.
C4_Witness ==
  /\ pc = "done"
  /\ Truthy(manifest) /\ Truthy(index)
  /\ index.specVersion # manifest.specVersion
  /\ CountMsgs(errors, "specVersionMismatch", 0) = 1
  /\ exitStatus = 1

\* C5: when the walk of an entry is over and its adapter.yml holds a gameId
\* other than the entry's id, errors holds exactly one back-reference
\* mismatch message for it, naming both values, and warnings holds none.
C5_BackRefMismatchIsError ==
  (pc = "endGame" /\ Truthy(adapterYml) /\ adapterYml.gameId # GameId(g))
  => /\ CountMsgs(errors, "adapterGameIdMismatch", g) = 1
     /\ \E n \in DOMAIN errors :
          errors[n] = Msg("adapterGameIdMismatch", g, GameId(g), "adapter.yml",
                          adapterYml.gameId)
     /\ CountMsgs(warnings, "adapterGameIdMismatch", g) = 0

\* C6: once game.yml of an entry is loaded and its id differs from the id of
\* the index record, errors holds a message for that entry.
C6_IdMismatchIsError ==
  (pc \in {"adapter", "registryExtensions"} /\ Truthy(gameData)
     /\ gameData.id # GameId(g))
  => ErrorsOfGame(g) >= 1

\* C7: an entry whose directory is missing gets exactly one error and nothing
\* beneath it is loaded, and the walk goes on: when the run has ended every
\* such entry of the index has its one error.
C7_MissingDirOneError ==
  /\ (pc = "endGame" /\ game.path = "missing")
       => ErrorsOfGame(g) = 1 /\ gameData.t = "unset"
  /\ ended => \A i \in DOMAIN IndexList :
                IndexList[i].path = "missing" => CountMsgs(errors, "dirMissing", i) = 1

\* C8: once the game.yml step of an entry whose directory exists is over and
\* the file was absent, unparsable or empty, errors holds a message for that
\* entry.
C8_UnusableGameYmlIsError ==
  (pc \in {"adapter", "registryExtensions"} /\ gameData.t \in {"absent", "null", "empty"})
  => ErrorsOfGame(g) >= 1

\* C9: every reference of a registryExtensions block that names no file gets
\* an error: frameworksSpecRef once its step is over, configSpecRef and the
\* schemaRef of the descriptor handled last once the run has ended.
C9_DanglingRefIsError ==
  (script = "part001" /\ Truthy(gameData) /\ gameData.regExt)
  => /\ (pc \in {"configSpec", "configFile", "crashed"} /\ gameData.fwRef = "dangling")
          => CountMsgs(errors, "frameworksSpecNotFound", g) >= 1
     /\ (ended /\ gameData.cfgRef = "dangling")
          => CountMsgs(errors, "configSpecNotFound", g) >= 1
     /\ (ended /\ configFile.item = "rec" /\ configFile.schemaRef = "dangling")
          => CountMsgs(errors, "configSchemaNotFound", g) >= 1

\* C10: once a descriptor of a config index is handled, a list descriptor
\* without a lineSchema has an error recorded for its entry, and a kv
\* descriptor whose schema lacks fields has the fields warning and no error
\* for that lack.
C10_ListErrorKvWarning ==
  (script = "part001" /\ pc \in {"configFile", "endGame"} /\ configFile.item = "rec")
  => /\ (configFile.kind = "list" /\ ~(configFile.t = "doc" /\ configFile.lineSchema))
          => ErrorsOfGame(g) >= 1
     /\ (configFile.kind = "kv" /\ configFile.t = "doc" /\ ~configFile.fields)
          => /\ CountMsgs(warnings, "fieldsMissing", g) >= 1
             /\ CountMsgs(errors, "fieldsMissing", g) = 0

\* The ajv errors the script reports for a call: all of them in
\* tools/validate.mjs, those the filter keeps in part_001.
Remaining == IF script = "tools" THEN violations ELSE relevantErrors(violations)

\* C11: a call with a schema name ajv does not know pushes exactly one
\* warning, pushes no error and returns true.
C11_MissingSchemaIsWarning ==
  (pc = "returned" /\ schemaArg \notin schemas)
  => /\ returned = "true"
     /\ Len(warnings) = 1
     /\ CountMsgs(warnings, "schemaNotFound", 0) = 1
     /\ Pushed(errors) = <<>>

\* C12 as stated: with the schema present, n >= 1 remaining violations make
\* the call return false and errors grow by exactly n entries; none remaining
\* make it return true and push nothing.
C12_ErrorsGrowByRemaining ==
  (pc = "returned" /\ schemaArg \in schemas)
  => IF Len(Remaining) >= 1
     THEN returned = "false" /\ Len(Pushed(errors)) = Len(Remaining)
     ELSE returned = "true" /\ Pushed(errors) = <<>>

\* C12, amended: with the schema present, n >= 1 remaining violations make
\* the call return false and errors grow by n + 1 entries, a header line
\* naming the file and then one entry per remaining violation, in order;
\* none remaining make it return true and push nothing.  No warning is pushed.
C12_ErrorsGrowByHeaderAndRemaining ==
  (pc = "returned" /\ schemaArg \in schemas)
  => /\ warnings = <<>>
     /\ IF Len(Remaining) >= 1
        THEN /\ returned = "false"
             /\ Len(Pushed(errors)) = Len(Remaining) + 1
             /\ Pushed(errors)[1] = Msg("schemaHeader", 0, "", "data.yml", "")
             /\ \A n \in DOMAIN Remaining :
                  /\ Pushed(errors)[n + 1].kind = "schemaViolation"
                  /\ Pushed(errors)[n + 1].val = Remaining[n].kind
                  /\ Pushed(errors)[n + 1].name =
                       IF Remaining[n].path = <<>> THEN "root"
                       ELSE JoinPath(Remaining[n].path)
        ELSE returned = "true" /\ Pushed(errors) = <<>>

\* A call that reported some of the ajv errors and dropped others.
C12_Witness ==
  /\ pc = "returned"
  /\ schemaArg \in schemas
  /\ Len(Remaining) >= 1
  /\ Len(Remaining) < Len(violations)
  /\ returned = "false"
  /\ Len(Pushed(errors)) = 2

\* The violations the tolerance filter may drop: an additional property at
\* the top level that is a registry-extension field, and a pattern violation
\* on specVersion.
Suppressible(v) ==
  \/ v.kind = "additionalProperties" /\ v.path = <<>> /\ v.prop = "registryExtensions"
  \/ v.kind = "pattern" /\ v.path = <<"specVersion">>

\* errors holds the line that reports violation v.
Reported(v) ==
  \E m \in DOMAIN errors :
    /\ errors[m].kind = "schemaViolation"
    /\ errors[m].val = v.kind
    /\ errors[m].name = IF v.path = <<>> THEN "root" ELSE JoinPath(v.path)

\* C13: after a call of part_001's validateSchema with the schema present,
\* every ajv error that is neither a top-level additional property named as
\* a registry extension nor a specVersion pattern violation is reported in
\* errors.
C13_FilterDropsOnlyExtensions ==
  (script = "part001" /\ pc = "returned" /\ schemaArg \in schemas)
  => \A n \in DOMAIN violations :
       ~Suppressible(violations[n]) => Reported(violations[n])

\* C14: a run over the minimal valid tree, with every schema in schemas/,
\* ends at the report with no error, no warning and exit status 0.
C14_MinimalTreePasses ==
  (ended /\ tree = MinimalTree /\ schemas = SchemaNames)
  => /\ pc = "done"
     /\ errors = <<>>
     /\ warnings = <<>>
     /\ exitStatus = 0

\* C15: a run over the minimal tree plus one plugin directory that holds no
\* plugin.yml (and no schema.yml) ends with a non-zero exit status and
\* exactly one error, which names the plugin directory, and with no warning
\* about the missing schema.yml.
C15_BarePluginOneError ==
  (ended /\ tree = BarePluginTree /\ schemas = SchemaNames)
  => /\ exitStatus # 0
     /\ Len(errors) = 1
     /\ errors[1] = Msg("pluginYmlMissing", 1, "", PluginId(1), "")
     /\ CountMsgs(warnings, "schemaYmlMissing", 1) = 0

Rank(p) ==
  CASE p = "manifest" -> 0
    [] p = "index" -> 1
    [] p = "gameDir" -> 2
    [] p = "gameYml" -> 3
    [] p = "adapter" -> 4
    [] p = "frameworks" -> 5
    [] p = "frameworkFile" -> 6
    [] p = "plugins" -> 7
    [] p = "pluginDir" -> 8
    [] p = "registryExtensions" -> 9
    [] p = "frameworksSpec" -> 10
    [] p = "configSpec" -> 11
    [] p = "configFile" -> 12
    [] p = "endGame" -> 13
    [] p = "report" -> 14
    [] OTHER -> 15

\* The messages that belong to the checks of a step.
LoadKinds == {"parseFailed", "schemaNotFound", "schemaHeader", "schemaViolation"}
StepKinds(p) ==
  CASE p = "manifest" -> LoadKinds
    [] p = "index" -> LoadKinds \cup {"specVersionMismatch"}
    [] p = "gameDir" -> {"dirMissing"}
    [] p = "gameYml" -> LoadKinds \cup {"gameYmlMissing", "gameIdMismatch", "gameNameMismatch"}
    [] p = "adapter" -> LoadKinds \cup {"adapterYmlMissing", "adapterGameIdMismatch"}
    [] p = "frameworkFile" -> LoadKinds \cup {"frameworkGameIdMismatch"}
    [] p = "pluginDir" ->
         LoadKinds \cup {"pluginYmlMissing", "pluginGameIdMismatch", "schemaYmlMissing"}
    [] p = "frameworksSpec" ->
         {"parseFailed", "frameworksSpecNotFound", "frameworksVersionMissing",
          "frameworksArrayMissing", "frameworkItemIncomplete"}
    [] p = "configSpec" ->
         {"parseFailed", "configSpecNotFound", "configVersionMissing", "configFilesMissing"}
    [] p = "configFile" ->
         {"parseFailed", "schemaRefMissing", "configSchemaNotFound", "schemaVersionMissing",
          "schemaFormatMissing", "lineSchemaMissing", "fieldsMissing"}
    [] OTHER -> {}

\* seq grew into seq2 by pushes of the step at pc for the game at g.
PushedByStep(seq, seq2) ==
  /\ Len(seq) <= Len(seq2)
  /\ SubSeq(seq2, 1, Len(seq)) = seq
  /\ \A n \in (Len(seq) + 1)..Len(seq2) :
       seq2[n].game = g /\ seq2[n].kind \in StepKinds(pc)

\* C17: every step of a run moves forward in the order manifest, index, the
\* games in index order and, within a game, game.yml, adapter, frameworks,
\* plugins, registry extensions (a loop over files moving to its next file),
\* and pushes only the messages of its own checks, behind those already
\* pushed: errors and warnings are ordered as the checks are.
C17_FixedOrder ==
  [][/\ \/ g' > g
        \/ g' = g /\ Rank(pc') > Rank(pc)
        \/ g' = g /\ pc' = pc /\ pos' = pos + 1
     /\ g' \in {g, g + 1}
     /\ PushedByStep(errors, errors')
     /\ PushedByStep(warnings, warnings')]_vars

\* A finished run that recorded an error for the first game and then one for
\* the second.
C17_Witness ==
  /\ pc = "done"
  /\ Len(errors) = 2
  /\ errors[1].game = 1
  /\ errors[2].game = 2

\* C18: when a run of part_001 over a tree whose game.yml names a frameworks
\* spec that exists and parses is over, errors holds a message for a missing
\* version, for a frameworks list that is missing, no list or empty, and for
\* a list item without id or name.
C18_FrameworksSpecChecked ==
  (script = "part001" /\ ended /\ tree.t = "fixed"
     /\ tree.index.t = "doc" /\ tree.index.games = "list"
     /\ tree.index.list = <<[path |-> "dir"]>>
     /\ tree.gameYml.t = "doc" /\ tree.gameYml.regExt /\ tree.gameYml.fwRef = "file"
     /\ tree.frameworksSpec.t = "doc")
  => /\ ~tree.frameworksSpec.version
          => CountMsgs(errors, "frameworksVersionMissing", 1) >= 1
     /\ (tree.frameworksSpec.frameworks # "list" \/ tree.frameworksSpec.list = <<>>)
          => CountMsgs(errors, "frameworksArrayMissing", 1) >= 1
     /\ (tree.frameworksSpec.frameworks = "list"
           /\ \E n \in DOMAIN tree.frameworksSpec.list :
                tree.frameworksSpec.list[n] = "incomplete")
          => CountMsgs(errors, "frameworkItemIncomplete", 1) >= 1

====
